---- MODULE Spec2Model ----
(***************************************************************************)
(* The text-analysis engine of server.js: sentence and token segmentation, *)
(* the randomized rewriter (humanizeText), the authorship heuristic        *)
(* (aiDetectScore) and the shingle-overlap matcher (checkPlagiarism).      *)
(*                                                                         *)
(* A JavaScript string is a sequence of one-character strings; four        *)
(* non-ASCII characters are written by name: "NBH" (U+2011), "EMDASH"      *)
(* (U+2014), "LDQ" (U+201C) and "RDQ" (U+201D).  Math.random() is a        *)
(* nondeterministic draw, in hundredths, from RandVals.  Numbers with a    *)
(* fraction are fixed-point integers whose unit is named where they occur. *)
(***************************************************************************)
EXTENDS Integers, Sequences, FiniteSets, TLC

VARIABLES fn, text, tone, keepLength, draws, pc, ret

vars == <<fn, text, tone, keepLength, draws, pc, ret>>

----------------------------------------------------------------------------
(* Characters *)

LowerSeq == <<"a", "b", "c", "d", "e", "f", "g", "h", "i", "j", "k", "l", "m", "n", "o", "p", "q", "r", "s", "t", "u", "v", "w", "x", "y", "z">>
UpperSeq == <<"A", "B", "C", "D", "E", "F", "G", "H", "I", "J", "K", "L", "M", "N", "O", "P", "Q", "R", "S", "T", "U", "V", "W", "X", "Y", "Z">>
DigitSeq == <<"0", "1", "2", "3", "4", "5", "6", "7", "8", "9">>

Range(s) == {s[i] : i \in 1..Len(s)}

LowerSet == Range(LowerSeq)
UpperSet == Range(UpperSeq)
DigitSet == Range(DigitSeq)

\* \s of a JavaScript regular expression (the members that occur in the inputs)
IsWs(c) == c \in {" ", "\t", "\n"}

\* \w of a JavaScript regular expression
IsWordCh(c) == c \in LowerSet \cup UpperSet \cup DigitSet \cup {"_"}

\* String.prototype.toLowerCase / toUpperCase on one character
ToLowerCh(c) == IF c \in UpperSet THEN LowerSeq[CHOOSE i \in 1..26 : UpperSeq[i] = c] ELSE c
ToUpperCh(c) == IF c \in LowerSet THEN UpperSeq[CHOOSE i \in 1..26 : LowerSeq[i] = c] ELSE c

toLowerCase(s) == [i \in 1..Len(s) |-> ToLowerCh(s[i])]

\* Op applied to the value of v, with v evaluated once (a LET definition is
\* evaluated again at each of its uses)
Bind(v, Op(_)) == CHOOSE y \in {Op(x) : x \in {v}} : TRUE

RECURSIVE SumSeq(_)
SumSeq(s) == IF Len(s) = 0 THEN 0 ELSE s[1] + SumSeq(Tail(s))

Min(a, b) == IF a < b THEN a ELSE b
Max(a, b) == IF a > b THEN a ELSE b

----------------------------------------------------------------------------
(* String helpers *)

\* s.slice(i) with a 1-based first index
SliceFrom(s, i) == IF i > Len(s) THEN <<>> ELSE SubSeq(s, i, Len(s))

\* the first index >= i whose character is not whitespace (Len(s)+1 if none)
RECURSIVE SkipWs(_, _)
SkipWs(s, i) == IF i <= Len(s) /\ IsWs(s[i]) THEN SkipWs(s, i + 1) ELSE i

\* the first index >= i whose character is whitespace (Len(s)+1 if none)
RECURSIVE SkipNonWs(_, _)
SkipNonWs(s, i) == IF i <= Len(s) /\ ~IsWs(s[i]) THEN SkipNonWs(s, i + 1) ELSE i

\* the first index >= i whose character is not a word character
RECURSIVE SkipWord(_, _)
SkipWord(s, i) == IF i <= Len(s) /\ IsWordCh(s[i]) THEN SkipWord(s, i + 1) ELSE i

\* the last index <= i whose character is not whitespace (0 if none)
RECURSIVE LastNonWs(_, _)
LastNonWs(s, i) == IF i >= 1 /\ IsWs(s[i]) THEN LastNonWs(s, i - 1) ELSE i

\* String.prototype.trim
trim(s) ==
  LET a == SkipWs(s, 1)
      b == LastNonWs(s, Len(s))
  IN  IF a > b THEN <<>> ELSE SubSeq(s, a, b)

\* the least element of a non-empty set of integers
MinOf(S) == CHOOSE x \in S : \A y \in S : x <= y

\* s.replace(/\s+/g, ' '): every whitespace run becomes one space
CollapseWs(s) ==
  LET keep == SelectSeq([i \in 1..Len(s) |-> i],
                        LAMBDA i : ~(IsWs(s[i]) /\ i > 1 /\ IsWs(s[i - 1])))
  IN  [k \in 1..Len(keep) |-> IF IsWs(s[keep[k]]) THEN " " ELSE s[keep[k]]]

\* s.split(/\s+/): the pieces between whitespace runs, empty pieces included
RECURSIVE SplitWs(_, _)
SplitWs(s, i) ==
  LET j == SkipNonWs(s, i)
  IN  IF j > Len(s) THEN << SliceFrom(s, i) >>
      ELSE << SubSeq(s, i, j - 1) >> \o SplitWs(s, SkipWs(s, j))

\* s.split(/(\s+)/): the pieces and the whitespace runs between them, alternating
RECURSIVE SplitKeepWs(_, _)
SplitKeepWs(s, i) ==
  LET j == SkipNonWs(s, i)
      k == SkipWs(s, j)
  IN  IF j > Len(s) THEN << SliceFrom(s, i) >>
      ELSE << SubSeq(s, i, j - 1), SubSeq(s, j, k - 1) >> \o SplitKeepWs(s, k)

\* s.split(','): the pieces between commas, empty pieces included
RECURSIVE SplitComma(_, _)
SplitComma(s, start) ==
  LET commas == {j \in start..Len(s) : s[j] = ","}
  IN  IF commas = {} THEN << SliceFrom(s, start) >>
      ELSE << SubSeq(s, start, MinOf(commas) - 1) >> \o SplitComma(s, MinOf(commas) + 1)

\* arr.filter(Boolean) on an array of strings: the empty string is falsy
filterBoolean(arr) == SelectSeq(arr, LAMBDA p : p # <<>>)

\* arr.join(sep)
RECURSIVE join(_, _)
join(arr, sep) ==
  IF Len(arr) = 0 THEN <<>>
  ELSE IF Len(arr) = 1 THEN arr[1]
  ELSE arr[1] \o sep \o join(Tail(arr), sep)

----------------------------------------------------------------------------
(* Segmentation and tokenization *)

IsTerminator(c) == c \in {".", "!", "?"}

\* s.split(/(?<=[\.\!\?])\s+/): split at every whitespace run that follows a terminator
RECURSIVE SplitAfterTerminator(_, _)
SplitAfterTerminator(s, start) ==
  LET seps == {j \in start..Len(s) : IsWs(s[j]) /\ j > 1 /\ IsTerminator(s[j - 1])}
  IN  IF seps = {} THEN << SliceFrom(s, start) >>
      ELSE << SubSeq(s, start, MinOf(seps) - 1) >>
           \o SplitAfterTerminator(s, SkipWs(s, MinOf(seps)))

\* splitSentences without its .map(s => s.trim())
splitSentencesNoTrim(t) == filterBoolean(SplitAfterTerminator(CollapseWs(t), 1))

splitSentences(t) ==
  LET parts == SplitAfterTerminator(CollapseWs(t), 1)
  IN  filterBoolean([k \in 1..Len(parts) |-> trim(parts[k])])

BracketChars == {"(", ")", "[", "]", "{", "}", "\"", "LDQ", "RDQ", "<", ">"}

IsTokenCh(c) == c \in LowerSet \cup DigitSet \cup {"'", "-", " "}

tokenize(t) ==
  LET l == toLowerCase(t)
      a == [i \in 1..Len(l) |-> IF l[i] \in BracketChars THEN " " ELSE l[i]]
      b == [i \in 1..Len(a) |-> IF IsTokenCh(a[i]) THEN a[i] ELSE " "]
  IN  filterBoolean(SplitWs(b, 1))

unique(arr) == Range(arr)

\* jaccard with union = a.size + b.size, the intersection counted twice
jaccardDoubleCount(a, b) ==
  LET inter == Cardinality(a \cap b)
      union == Cardinality(a) + Cardinality(b)
  IN  IF union = 0 THEN [num |-> 0, den |-> 1] ELSE [num |-> inter, den |-> union]

\* jaccard over two sets; the result is the fraction inter/union as a pair
jaccard(a, b) ==
  LET inter == Cardinality(a \cap b)
      union == Cardinality(a) + Cardinality(b) - inter
  IN  IF union = 0 THEN [num |-> 0, den |-> 1] ELSE [num |-> inter, den |-> union]

----------------------------------------------------------------------------
(* Lexical resources *)

\* the STOPWORDS set
STOPWORDS == {
  <<"t", "h", "e">>, <<"i", "s">>, <<"a", "r", "e">>, <<"a", "m">>, <<"a">>, <<"a", "n">>,
  <<"a", "n", "d">>, <<"o", "r">>, <<"b", "u", "t">>, <<"a", "s">>, <<"o", "f">>, <<"t", "o">>,
  <<"i", "n">>, <<"o", "n">>, <<"f", "o", "r">>, <<"w", "i", "t", "h">>, <<"b", "y">>, <<"a", "t">>,
  <<"f", "r", "o", "m">>, <<"t", "h", "a", "t">>, <<"t", "h", "i", "s">>, <<"i", "t">>, <<"b", "e">>, <<"w", "a", "s">>,
  <<"w", "e", "r", "e">>, <<"h", "a", "s">>, <<"h", "a", "v", "e">>, <<"h", "a", "d">>, <<"n", "o", "t">>, <<"n", "o">>,
  <<"y", "e", "s">>, <<"i", "f">>, <<"t", "h", "e", "n">>, <<"s", "o">>, <<"t", "h", "a", "n">>, <<"t", "o", "o">>,
  <<"v", "e", "r", "y">>, <<"c", "a", "n">>, <<"c", "o", "u", "l", "d">>, <<"s", "h", "o", "u", "l", "d">>, <<"w", "o", "u", "l", "d">>, <<"w", "i", "l", "l">>,
  <<"s", "h", "a", "l", "l">>, <<"d", "o">>, <<"d", "i", "d">>, <<"d", "o", "e", "s">>, <<"i", "n", "t", "o">>, <<"a", "b", "o", "u", "t">>,
  <<"o", "v", "e", "r">>, <<"u", "n", "d", "e", "r">>, <<"o", "u", "t">>, <<"u", "p">>, <<"d", "o", "w", "n">> }

\* the own properties of the SYNONYMS object
SYNONYMS ==
  (<<"i", "m", "p", "o", "r", "t", "a", "n", "t">> :> << <<"c", "r", "u", "c", "i", "a", "l">>, <<"e", "s", "s", "e", "n", "t", "i", "a", "l">>, <<"v", "i", "t", "a", "l">>, <<"k", "e", "y">> >>) @@
  (<<"b", "i", "g">> :> << <<"m", "a", "j", "o", "r">>, <<"s", "i", "g", "n", "i", "f", "i", "c", "a", "n", "t">>, <<"l", "a", "r", "g", "e">> >>) @@
  (<<"s", "m", "a", "l", "l">> :> << <<"m", "i", "n", "o", "r">>, <<"m", "o", "d", "e", "s", "t">>, <<"c", "o", "m", "p", "a", "c", "t">> >>) @@
  (<<"m", "a", "k", "e">> :> << <<"c", "r", "e", "a", "t", "e">>, <<"b", "u", "i", "l", "d">>, <<"c", "r", "a", "f", "t">>, <<"p", "r", "o", "d", "u", "c", "e">> >>) @@
  (<<"g", "e", "t">> :> << <<"r", "e", "c", "e", "i", "v", "e">>, <<"o", "b", "t", "a", "i", "n">>, <<"s", "e", "c", "u", "r", "e">>, <<"g", "a", "i", "n">> >>) @@
  (<<"u", "s", "e">> :> << <<"u", "t", "i", "l", "i", "z", "e">>, <<"a", "p", "p", "l", "y">>, <<"e", "m", "p", "l", "o", "y">> >>) @@
  (<<"h", "e", "l", "p">> :> << <<"a", "s", "s", "i", "s", "t">>, <<"s", "u", "p", "p", "o", "r", "t">>, <<"a", "i", "d">> >>) @@
  (<<"s", "h", "o", "w">> :> << <<"d", "e", "m", "o", "n", "s", "t", "r", "a", "t", "e">>, <<"r", "e", "v", "e", "a", "l">>, <<"d", "i", "s", "p", "l", "a", "y">> >>) @@
  (<<"i", "m", "p", "r", "o", "v", "e">> :> << <<"e", "n", "h", "a", "n", "c", "e">>, <<"b", "o", "o", "s", "t">>, <<"r", "e", "f", "i", "n", "e">> >>) @@
  (<<"i", "n", "c", "r", "e", "a", "s", "e">> :> << <<"r", "a", "i", "s", "e">>, <<"e", "l", "e", "v", "a", "t", "e">>, <<"a", "m", "p", "l", "i", "f", "y">> >>) @@
  (<<"r", "e", "d", "u", "c", "e">> :> << <<"l", "o", "w", "e", "r">>, <<"d", "e", "c", "r", "e", "a", "s", "e">>, <<"c", "u", "t">> >>) @@
  (<<"b", "e", "c", "a", "u", "s", "e">> :> << <<"s", "i", "n", "c", "e">>, <<"a", "s">> >>) @@
  (<<"h", "o", "w", "e", "v", "e", "r">> :> << <<"b", "u", "t">>, <<"y", "e", "t">>, <<"s", "t", "i", "l", "l">> >>) @@
  (<<"a", "l", "s", "o">> :> << <<"a", "d", "d", "i", "t", "i", "o", "n", "a", "l", "l", "y">>, <<"m", "o", "r", "e", "o", "v", "e", "r">>, <<"f", "u", "r", "t", "h", "e", "r", "m", "o", "r", "e">> >>) @@
  (<<"t", "h", "e", "r", "e", "f", "o", "r", "e">> :> << <<"t", "h", "u", "s">>, <<"h", "e", "n", "c", "e">>, <<"s", "o">> >>) @@
  (<<"m", "a", "n", "y">> :> << <<"n", "u", "m", "e", "r", "o", "u", "s">>, <<"s", "e", "v", "e", "r", "a", "l">> >>) @@
  (<<"f", "e", "w">> :> << <<"s", "o", "m", "e">>, <<"l", "i", "m", "i", "t", "e", "d">> >>) @@
  (<<"p", "e", "o", "p", "l", "e">> :> << <<"i", "n", "d", "i", "v", "i", "d", "u", "a", "l", "s">>, <<"u", "s", "e", "r", "s">>, <<"c", "u", "s", "t", "o", "m", "e", "r", "s">> >>) @@
  (<<"p", "r", "o", "b", "l", "e", "m">> :> << <<"i", "s", "s", "u", "e">>, <<"c", "h", "a", "l", "l", "e", "n", "g", "e">>, <<"c", "o", "n", "c", "e", "r", "n">> >>) @@
  (<<"s", "o", "l", "u", "t", "i", "o", "n">> :> << <<"a", "p", "p", "r", "o", "a", "c", "h">>, <<"r", "e", "m", "e", "d", "y">>, <<"f", "i", "x">> >>) @@
  (<<"f", "e", "a", "t", "u", "r", "e">> :> << <<"c", "a", "p", "a", "b", "i", "l", "i", "t", "y">>, <<"f", "u", "n", "c", "t", "i", "o", "n">>, <<"o", "p", "t", "i", "o", "n">> >>) @@
  (<<"g", "o", "o", "d">> :> << <<"s", "o", "l", "i", "d">>, <<"s", "t", "r", "o", "n", "g">>, <<"r", "e", "l", "i", "a", "b", "l", "e">>, <<"g", "r", "e", "a", "t">> >>) @@
  (<<"b", "a", "d">> :> << <<"w", "e", "a", "k">>, <<"p", "o", "o", "r">>, <<"u", "n", "r", "e", "l", "i", "a", "b", "l", "e">> >>) @@
  (<<"e", "a", "s", "y">> :> << <<"s", "i", "m", "p", "l", "e">>, <<"s", "t", "r", "a", "i", "g", "h", "t", "f", "o", "r", "w", "a", "r", "d">> >>) @@
  (<<"h", "a", "r", "d">> :> << <<"d", "i", "f", "f", "i", "c", "u", "l", "t">>, <<"c", "h", "a", "l", "l", "e", "n", "g", "i", "n", "g">>, <<"t", "o", "u", "g", "h">> >>) @@
  (<<"f", "a", "s", "t">> :> << <<"q", "u", "i", "c", "k">>, <<"r", "a", "p", "i", "d">>, <<"s", "p", "e", "e", "d", "y">> >>) @@
  (<<"s", "l", "o", "w">> :> << <<"g", "r", "a", "d", "u", "a", "l">>, <<"s", "l", "u", "g", "g", "i", "s", "h">> >>) @@
  (<<"w", "o", "r", "k">> :> << <<"o", "p", "e", "r", "a", "t", "e">>, <<"f", "u", "n", "c", "t", "i", "o", "n">> >>) @@
  (<<"b", "u", "y">> :> << <<"p", "u", "r", "c", "h", "a", "s", "e">>, <<"a", "c", "q", "u", "i", "r", "e">> >>) @@
  (<<"s", "e", "l", "l">> :> << <<"o", "f", "f", "e", "r">>, <<"p", "r", "o", "v", "i", "d", "e">> >>)

CORPUS == <<
  <<"A", "r", "t", "i", "f", "i", "c", "i", "a", "l", " ", "i", "n", "t", "e", "l", "l", "i", "g", "e", "n", "c", "e", " ", "i", "s", " ", "r", "e", "s", "h", "a", "p", "i", "n", "g", " ", "i", "n", "d", "u", "s", "t", "r", "i", "e", "s", " ", "w", "i", "t", "h", " ", "a", "u", "t", "o", "m", "a", "t", "i", "o", "n", " ", "a", "n", "d", " ", "s", "m", "a", "r", "t", "e", "r", " ", "d", "e", "c", "i", "s", "i", "o", "n", "NBH", "m", "a", "k", "i", "n", "g", ".">>,
  <<"E", "f", "f", "e", "c", "t", "i", "v", "e", " ", "w", "r", "i", "t", "i", "n", "g", " ", "b", "a", "l", "a", "n", "c", "e", "s", " ", "c", "l", "a", "r", "i", "t", "y", ",", " ", "r", "h", "y", "t", "h", "m", ",", " ", "a", "n", "d", " ", "s", "p", "e", "c", "i", "f", "i", "c", "i", "t", "y", " ", "t", "o", " ", "k", "e", "e", "p", " ", "r", "e", "a", "d", "e", "r", "s", " ", "e", "n", "g", "a", "g", "e", "d", ".">>,
  <<"S", "e", "a", "r", "c", "h", " ", "e", "n", "g", "i", "n", "e", "s", " ", "p", "r", "i", "o", "r", "i", "t", "i", "z", "e", " ", "u", "s", "e", "f", "u", "l", ",", " ", "o", "r", "i", "g", "i", "n", "a", "l", " ", "c", "o", "n", "t", "e", "n", "t", " ", "w", "i", "t", "h", " ", "s", "t", "r", "o", "n", "g", " ", "u", "s", "e", "r", " ", "s", "i", "g", "n", "a", "l", "s", " ", "a", "n", "d", " ", "a", "u", "t", "h", "o", "r", "i", "t", "y", ".">>,
  <<"S", "t", "u", "d", "e", "n", "t", "s", " ", "c", "a", "n", " ", "b", "u", "i", "l", "d", " ", "c", "r", "e", "d", "i", "t", " ", "b", "y", " ", "p", "a", "y", "i", "n", "g", " ", "o", "n", " ", "t", "i", "m", "e", " ", "a", "n", "d", " ", "k", "e", "e", "p", "i", "n", "g", " ", "u", "t", "i", "l", "i", "z", "a", "t", "i", "o", "n", " ", "l", "o", "w", " ", "o", "v", "e", "r", " ", "m", "o", "n", "t", "h", "s", ".">>,
  <<"G", "o", "o", "d", " ", "d", "e", "s", "i", "g", "n", " ", "r", "e", "d", "u", "c", "e", "s", " ", "f", "r", "i", "c", "t", "i", "o", "n", ",", " ", "d", "i", "r", "e", "c", "t", "s", " ", "a", "t", "t", "e", "n", "t", "i", "o", "n", ",", " ", "a", "n", "d", " ", "m", "a", "k", "e", "s", " ", "c", "h", "o", "i", "c", "e", "s", " ", "f", "e", "e", "l", " ", "o", "b", "v", "i", "o", "u", "s", ".">> >>

----------------------------------------------------------------------------
(* Humanizer / Rewriter *)

\* Math.random(), in hundredths: one value in each interval that the
\* thresholds 0.25, 0.3, 0.35, 0.4 and the pick indices of lists of 1..4 cut out
RandVals == {10, 30, 60, 95}

\* the k-th Math.random() of a call (the stream repeats after Len(rs) draws)
Draw(rs, k) == rs[((k - 1) % Len(rs)) + 1]

\* SYNONYMS[core]: an own property, or "constructor" inherited from
\* Object.prototype (the function Object, whose length is 1), or undefined
SynLookup(core) ==
  IF core \in DOMAIN SYNONYMS THEN [kind |-> "array", items |-> SYNONYMS[core]]
  ELSE IF core = <<"c", "o", "n", "s", "t", "r", "u", "c", "t", "o", "r">> THEN [kind |-> "function", items |-> <<>>]
  ELSE [kind |-> "undefined", items |-> <<>>]

\* arr[Math.floor(Math.random()*arr.length)]; Object.length is 1 and Object[0] is undefined
pick(arr, r) ==
  IF arr.kind = "array"
  THEN [defined |-> TRUE, str |-> arr.items[((r * Len(arr.items)) \div 100) + 1]]
  ELSE [defined |-> FALSE, str |-> <<>>]

\* the guard with its bound off by one: tokens.length < 5
IsShortSentenceOffByOne(tokens) == Len(tokens) < 5

\* tokens.length < 6
IsShortSentence(tokens) == Len(tokens) < 6

\* w.toLowerCase().replace(/[^a-z'\-]/g,'')
CoreOf(w) == SelectSeq(toLowerCase(w), LAMBDA c : c \in LowerSet \cup {"'", "-"})

\* /\d/.test(core)
HasDigit(s) == \E i \in 1..Len(s) : s[i] \in DigitSet

\* repl.charAt(0).toUpperCase()+repl.slice(1)
Capitalize(s) == IF s = <<>> THEN s ELSE <<ToUpperCh(s[1])>> \o Tail(s)

\* the loop over words (server.js 100-109) from index i on, k draws consumed so far
RECURSIVE WordPass(_, _, _, _)
WordPass(words, i, rs, k) ==
  IF i > Len(words) THEN [threw |-> FALSE, words |-> words, used |-> k]
  ELSE
    LET w == words[i]
        core == CoreOf(w)
    IN  IF core = <<>> \/ core \in STOPWORDS THEN WordPass(words, i + 1, rs, k)
        ELSE IF HasDigit(core) THEN WordPass(words, i + 1, rs, k)
        ELSE IF SynLookup(core).kind = "undefined" THEN WordPass(words, i + 1, rs, k)
        ELSE IF ~(Draw(rs, k + 1) < 35) THEN WordPass(words, i + 1, rs, k + 1)
        ELSE
          LET repl == pick(SynLookup(core), Draw(rs, k + 2))
          IN  IF w[1] = ToUpperCh(w[1])
              THEN IF repl.defined
                   THEN WordPass([words EXCEPT ![i] = Capitalize(repl.str)], i + 1, rs, k + 2)
                   ELSE [threw |-> TRUE, words |-> words, used |-> k + 2]
              ELSE WordPass([words EXCEPT ![i] = repl.str], i + 1, rs, k + 2)

\* the alternatives of the tone pattern, in the pattern's order
Contractions == <<
  <<"c", "a", "n", "'", "t">>, <<"w", "o", "n", "'", "t">>, <<"d", "o", "n", "'", "t">>, <<"i", "s", "n", "'", "t">>, <<"a", "r", "e", "n", "'", "t">>,
  <<"I", "'", "m">>, <<"y", "o", "u", "'", "r", "e">>, <<"w", "e", "'", "r", "e">>, <<"t", "h", "e", "y", "'", "r", "e">>, <<"i", "t", "'", "s">> >>

\* the own properties of the map object of the replace callback
ContractionMap ==
  (<<"c", "a", "n", "'", "t">> :> <<"c", "a", "n", "n", "o", "t">>) @@ (<<"w", "o", "n", "'", "t">> :> <<"w", "i", "l", "l", " ", "n", "o", "t">>) @@
  (<<"d", "o", "n", "'", "t">> :> <<"d", "o", " ", "n", "o", "t">>) @@ (<<"i", "s", "n", "'", "t">> :> <<"i", "s", " ", "n", "o", "t">>) @@
  (<<"a", "r", "e", "n", "'", "t">> :> <<"a", "r", "e", " ", "n", "o", "t">>) @@ (<<"I", "'", "m">> :> <<"I", " ", "a", "m">>) @@
  (<<"y", "o", "u", "'", "r", "e">> :> <<"y", "o", "u", " ", "a", "r", "e">>) @@ (<<"w", "e", "'", "r", "e">> :> <<"w", "e", " ", "a", "r", "e">>) @@
  (<<"t", "h", "e", "y", "'", "r", "e">> :> <<"t", "h", "e", "y", " ", "a", "r", "e">>) @@ (<<"i", "t", "'", "s">> :> <<"i", "t", " ", "i", "s">>)

\* \b at the position between s[i-1] and s[i]
BoundaryAt(s, i) ==
  LET before == i - 1 >= 1 /\ i - 1 <= Len(s) /\ IsWordCh(s[i - 1])
      after  == i >= 1 /\ i <= Len(s) /\ IsWordCh(s[i])
  IN  before # after

\* pat matches at s[i..] under the i flag
MatchesAtCI(s, i, pat) ==
  /\ i + Len(pat) - 1 <= Len(s)
  /\ \A j \in 1..Len(pat) : ToLowerCh(s[i + j - 1]) = ToLowerCh(pat[j])

\* the alternatives of the tone pattern that match at i, between two \b
ContractionHits(s, i) ==
  {n \in 1..Len(Contractions) :
     /\ BoundaryAt(s, i)
     /\ MatchesAtCI(s, i, Contractions[n])
     /\ BoundaryAt(s, i + Len(Contractions[n]))}

\* (m) => map[m] || m
ContractionCallback(m) == IF m \in DOMAIN ContractionMap THEN ContractionMap[m] ELSE m

\* rewritten.replace(/\b(can't|...|it's)\b/gi, callback) from index i on
RECURSIVE ExpandContractions(_, _)
ExpandContractions(s, i) ==
  LET starts == {j \in i..Len(s) : ContractionHits(s, j) # {}}
  IN  IF starts = {} THEN SliceFrom(s, i)
      ELSE
        LET j == MinOf(starts)
            e == j + Len(Contractions[MinOf(ContractionHits(s, j))])
        IN  SubSeq(s, i, j - 1) \o ContractionCallback(SubSeq(s, j, e - 1))
            \o ExpandContractions(s, e)

\* the tone tweaks (server.js 112-123) on the joined words; pass is the result of
\* the word loop
TonePass(pass, tn, rs) ==
  LET rewritten == join(pass.words, <<>>)
  IN  IF tn = "formal" THEN ExpandContractions(rewritten, 1)
      ELSE IF tn = "casual" /\ Draw(rs, pass.used + 1) < 30 /\ rewritten # <<>>
           THEN <<"H", "o", "n", "e", "s", "t", "l", "y", ",", " ">> \o <<ToLowerCh(rewritten[1])>> \o Tail(rewritten)
           ELSE rewritten

\* rewriteSentence(sent, tone) with k0 draws of rs consumed before the call
rewriteSentence(sent, tn, rs, k0) ==
  IF IsShortSentence(SplitWs(sent, 1))
  THEN [threw |-> FALSE, value |-> sent, used |-> k0,
        touched |-> FALSE, wordsIn |-> <<>>, wordsOut |-> <<>>]
  ELSE
    LET hasComma == \E i \in 1..Len(sent) : sent[i] = ","
        k1 == IF hasComma THEN k0 + 1 ELSE k0
        parts == SplitComma(sent, 1)
        out == IF hasComma /\ Draw(rs, k0 + 1) < 25 /\ Len(parts) = 2
               THEN trim(parts[2]) \o <<",", " ">> \o trim(parts[1])
               ELSE sent
        Finish(words, pass) ==
          IF pass.threw
          THEN [threw |-> TRUE, value |-> <<>>, used |-> pass.used,
                touched |-> TRUE, wordsIn |-> words, wordsOut |-> pass.words]
          ELSE [threw |-> FALSE, value |-> TonePass(pass, tn, rs),
                used |-> IF tn = "casual" THEN pass.used + 1 ELSE pass.used,
                touched |-> TRUE, wordsIn |-> words, wordsOut |-> pass.words]
        Loop(words) == Bind(WordPass(words, 1, rs, k1), LAMBDA pass : Finish(words, pass))
    IN  Bind(SplitKeepWs(out, 1), Loop)

\* sents.map(s => rewriteSentence(s, tone)) from sentence j on; stops at a throw
RECURSIVE RewriteAll(_, _, _, _, _)
RewriteAll(sents, j, tn, rs, k) ==
  IF j > Len(sents) THEN [threw |-> FALSE, items |-> <<>>, used |-> k]
  ELSE
    LET Cons(r, rest) ==
          [threw |-> rest.threw, items |-> <<r>> \o rest.items, used |-> rest.used]
        After(r) ==
          IF r.threw THEN [threw |-> TRUE, items |-> <<r>>, used |-> r.used]
          ELSE Bind(RewriteAll(sents, j + 1, tn, rs, r.used), LAMBDA rest : Cons(r, rest))
    IN  Bind(rewriteSentence(sents[j], tn, rs, k), After)

\* /\s+\w{1,3}\s+/ matches at index j: a whitespace run, a run of one to three
\* word characters, a whitespace run
ShortWordAt(s, j) ==
  LET a == SkipWs(s, j)
      b == SkipWord(s, a)
  IN  a > j /\ b - a >= 1 /\ b - a <= 3 /\ SkipWs(s, b) > b

\* s.replace(/\s+\w{1,3}\s+/g, ' ') from index i on
RECURSIVE DropShortWords(_, _)
DropShortWords(s, i) ==
  LET starts == {j \in i..Len(s) : ShortWordAt(s, j)}
  IN  IF starts = {} THEN SliceFrom(s, i)
      ELSE
        LET j == MinOf(starts)
        IN  SubSeq(s, i, j - 1) \o <<" ">>
            \o DropShortWords(s, SkipWs(s, SkipWord(s, SkipWs(s, j))))

LongerSuffix == <<" ", "I", "n", " ", "p", "r", "a", "c", "t", "i", "c", "e", ",", " ", "t", "h", "i", "s", " ", "t", "e", "n", "d", "s", " ", "t", "o", " ", "w", "o", "r", "k", " ", "w", "e", "l", "l", ".">>

\* the keepLength === 'longer' map from sentence j on, k draws consumed so far
RECURSIVE Lengthen(_, _, _, _)
Lengthen(res, j, rs, k) ==
  IF j > Len(res) THEN <<>>
  ELSE IF Len(res[j]) > 12
       THEN << res[j] \o (IF Draw(rs, k + 1) < 40 THEN LongerSuffix ELSE <<>>) >>
            \o Lengthen(res, j + 1, rs, k + 1)
       ELSE << res[j] >> \o Lengthen(res, j + 1, rs, k)

\* the length pass of humanizeText (server.js 132-137)
LengthPass(res, keep, rs, k) ==
  IF keep = "shorter" THEN [j \in 1..Len(res) |-> trim(DropShortWords(res[j], 1))]
  ELSE IF keep = "longer" THEN Lengthen(res, 1, rs, k)
  ELSE res

humanizeText(t, tn, keep, rs) ==
  LET Join(sents, all, rewritten, res) ==
        [threw |-> FALSE, sents |-> sents, calls |-> all.items,
         rewritten |-> rewritten, res |-> res, value |-> join(res, <<" ">>)]
      Shape(sents, all, rewritten) ==
        Bind(LengthPass(rewritten, keep, rs, all.used),
             LAMBDA res : Join(sents, all, rewritten, res))
      Map(sents, all) ==
        IF all.threw THEN [threw |-> TRUE, sents |-> sents, calls |-> all.items]
        ELSE Bind([j \in 1..Len(all.items) |-> all.items[j].value],
                  LAMBDA rewritten : Shape(sents, all, rewritten))
      Rewrite(sents) ==
        Bind(RewriteAll(sents, 1, tn, rs, 0), LAMBDA all : Map(sents, all))
  IN  Bind(splitSentences(t), Rewrite)

\* an upper bound on the number of Math.random() calls of humanizeText(t, tn, keep):
\* one per sentence with a comma, two per word with a SYNONYMS entry, one per
\* sentence for the casual tone and one per sentence for keepLength 'longer'
DrawsNeeded(t, tn, keep) ==
  LET sents == splitSentences(t)
      long == {j \in 1..Len(sents) : ~IsShortSentence(SplitWs(sents[j], 1))}
      cands(s) == LET ws == SplitWs(s, 1)
                  IN  Cardinality({i \in 1..Len(ws) :
                         /\ CoreOf(ws[i]) # <<>>
                         /\ CoreOf(ws[i]) \notin STOPWORDS
                         /\ SynLookup(CoreOf(ws[i])).kind # "undefined"})
      per == [j \in 1..Len(sents) |->
                IF j \in long
                THEN (IF \E i \in 1..Len(sents[j]) : sents[j][i] = "," THEN 1 ELSE 0)
                     + 2 * cands(sents[j]) + (IF tn = "casual" THEN 1 ELSE 0)
                ELSE 0]
  IN  SumSeq(per) + (IF keep = "longer" THEN Len(sents) ELSE 0)

----------------------------------------------------------------------------
(* AI detector (heuristic) *)

\* floor(a*b/d) for 0 <= a < d and b = 10^8, without leaving 32 bits
MulDiv8(a, d) ==
  LET q1 == (a * 1000) \div d
      r1 == (a * 1000) % d
      q2 == (r1 * 1000) \div d
      r2 == (r1 * 1000) % d
      q3 == (r2 * 100) \div d
  IN  q1 * 100000 + q2 * 100 + q3

\* floor(sqrt(x)) by bisection on lo..hi
RECURSIVE ISqrt(_, _, _)
ISqrt(x, lo, hi) ==
  IF lo >= hi THEN lo
  ELSE LET mid == (lo + hi + 1) \div 2
       IN  IF mid * mid <= x THEN ISqrt(x, mid, hi) ELSE ISqrt(x, lo, mid - 1)

\* the alternatives (s|re|ve|ll|d|t) of the contraction pattern, in order
ContractionSuffixes == << <<"s">>, <<"r", "e">>, <<"v", "e">>, <<"l", "l">>, <<"d">>, <<"t">> >>

\* (text.match(/\b(\w+'(s|re|ve|ll|d|t))\b/gi)||[]).length from index i on
\* the suffix alternatives with which the contraction pattern matches at index i
SuffixHits(s, i) ==
  IF BoundaryAt(s, i) /\ IsWordCh(s[i])
  THEN LET j == SkipWord(s, i)
       IN  {n \in 1..Len(ContractionSuffixes) :
              /\ j <= Len(s)
              /\ s[j] = "'"
              /\ MatchesAtCI(s, j + 1, ContractionSuffixes[n])
              /\ BoundaryAt(s, j + 1 + Len(ContractionSuffixes[n]))}
  ELSE {}

RECURSIVE CountContractions(_, _)
CountContractions(s, i) ==
  LET starts == {j \in i..Len(s) : SuffixHits(s, j) # {}}
  IN  IF starts = {} THEN 0
      ELSE
        LET j == MinOf(starts)
            n == MinOf(SuffixHits(s, j))
        IN  1 + CountContractions(s, SkipWord(s, j) + 1 + Len(ContractionSuffixes[n]))

\* the characters of /[,:;\-\u2014\(\)]/ (the dash written as an escape here)
PunctChars == {",", ":", ";", "-", "EMDASH", "(", ")"}

\* Math.min(1, Math.max(0, (avg-18)/22)) in millionths; avg = sum/n
lenFactor(sum, n) ==
  IF sum <= 18 * n THEN 0
  ELSE IF sum - 18 * n >= 22 * n THEN 1000000
  ELSE ((sum - 18 * n) * 1000000) \div (22 * n)

\* 1 - Math.min(1, std/12) in millionths; std = sqrt(nvar)/n, and std/12 is
\* truncated to four decimals
burstinessFactor(nvar, n) ==
  IF nvar >= 144 * n * n THEN 0
  ELSE 1000000 - 100 * ISqrt(MulDiv8(nvar, 144 * n * n), 0, 10000)

\* 1 - Math.min(1, ttr/0.7) in millionths; ttr = uniq/total
ttrFactor(uniq, total) ==
  IF 10 * uniq >= 7 * total THEN 0
  ELSE 1000000 - (10000000 * uniq) \div (7 * total)

\* 1 - Math.min(1, contractions/3) in millionths; contractions = count/nsents
contractionFactor(count, nsents) ==
  IF count >= 3 * nsents THEN 0
  ELSE 1000000 - (1000000 * count) \div (3 * nsents)

\* 1 - Math.min(1, punctTypes/5) in millionths
punctVarFactor(punctTypes) ==
  IF punctTypes >= 5 THEN 0 ELSE 1000000 - 200000 * punctTypes

\* the label of a score given in units of 10^-8
LabelOf(score8) ==
  IF score8 >= 65000000 THEN "Likely AI"
  ELSE IF score8 <= 45000000 THEN "Likely Human"
  ELSE "Mixed"

\* +score.toFixed(3), in thousandths, of a score given in units of 10^-8
\* (the details are rounded alike: avg and std to tenths, ttr to thousandths,
\* contractions to hundredths)
ScoreToFixed3(score8) == (score8 + 50000) \div 100000

aiDetectScore(t) ==
  LET sents == splitSentences(t)
      words == tokenize(t)
      total == IF Len(words) = 0 THEN 1 ELSE Len(words)
      lens == SelectSeq([k \in 1..Len(sents) |-> Len(tokenize(sents[k]))], LAMBDA n : n > 0)
      n == IF Len(lens) = 0 THEN 1 ELSE Len(lens)
      sum == SumSeq(lens)
      \* n^2 times the variance: n*sum(b^2) - (sum b)^2
      nvar == n * SumSeq([k \in 1..Len(lens) |-> lens[k] * lens[k]]) - sum * sum
      uniq == Cardinality(unique(words))
      nsents == IF Len(sents) = 0 THEN 1 ELSE Len(sents)
      count == CountContractions(t, 1)
      punctTypes == Cardinality(Range(t) \cap PunctChars)
      score8 == 30 * lenFactor(sum, n) + 25 * burstinessFactor(nvar, n)
                + 20 * ttrFactor(uniq, total) + 10 * contractionFactor(count, nsents)
                + 15 * punctVarFactor(punctTypes)
  IN  [score |-> ScoreToFixed3(score8), label |-> LabelOf(score8),
       details |-> [avgSentenceLen |-> (20 * sum + n) \div (2 * n),
                    stdSentenceLen |-> (ISqrt((400 * nvar) \div (n * n), 0, 10000) + 1) \div 2,
                    ttr |-> (2000 * uniq + total) \div (2 * total),
                    contractionsPerSent |-> (200 * count + nsents) \div (2 * nsents),
                    punctVar |-> punctTypes]]

----------------------------------------------------------------------------
(* Plagiarism checker (local heuristic) *)

\* shingleTokens with its loop bound off by one: i <= tokens.length - size + 1
shingleTokensOffByOne(tokens, size) ==
  [i \in 1..Max(0, Len(tokens) - size + 2) |->
     join(SubSeq(tokens, i, Min(Len(tokens), i + size - 1)), <<" ">>)]

\* tokens.slice(i, i+size).join(' ') for i = 0 .. tokens.length - size
shingleTokens(tokens, size) ==
  [i \in 1..Max(0, Len(tokens) - size + 1) |-> join(SubSeq(tokens, i, i + size - 1), <<" ">>)]

\* +(sim*100).toFixed(1) in tenths; sim = num/den.  A tie is exact in binary
\* whenever den <= 16, and toFixed then takes the larger value
SimilarityTenths(sim) == (2000 * sim.num + sim.den) \div (2 * sim.den)

\* +(x).toFixed(1) in tenths for x = q/40.  At a tie (x = k.k5) the result
\* depends on the rounding error of the double that holds x: up says which way
ToFixed1Of40ths(q, up) ==
  IF q % 4 = 2 THEN (IF up THEN (q + 2) \div 4 ELSE (q - 2) \div 4)
  ELSE (q + 2) \div 4

\* block.slice(0,120)
Slice120(s) == SubSeq(s, 1, Min(120, Len(s)))

\* new Set(shingleTokens(tokenize(block), 6)) of every block of CORPUS
CorpusShingles == [c \in 1..Len(CORPUS) |-> Range(shingleTokens(tokenize(CORPUS[c]), 6))]

\* the loop over CORPUS (server.js 207-215) from block c on
RECURSIVE CorpusMatches(_, _)
CorpusMatches(shingles, c) ==
  IF c > Len(CORPUS) THEN <<>>
  ELSE
    LET bsh == CorpusShingles[c]
        here == IF shingles \cap bsh # {}
                THEN << [source |-> "Local Corpus",
                         sample |-> Slice120(CORPUS[c]) \o <<".", ".", ".">>,
                         similarity |-> SimilarityTenths(jaccard(shingles, bsh))] >>
                ELSE <<>>
    IN  here \o CorpusMatches(shingles, c + 1)

\* the two loops over sentence pairs (server.js 218-228) from the pair (i, j) on
RECURSIVE SelfMatches(_, _, _)
SelfMatches(sents, i, j) ==
  IF i > Len(sents) THEN <<>>
  ELSE IF j > Len(sents) THEN SelfMatches(sents, i + 1, i + 2)
  ELSE
    LET a == tokenize(sents[i])
        b == tokenize(sents[j])
        sim == jaccard(Range(a), Range(b))
        here == IF Len(a) > 6 /\ Len(b) > 6 /\ 10 * sim.num > 7 * sim.den
                THEN << [source |-> "Self repetition",
                         sample |-> <<"LDQ">> \o Slice120(sents[j]) \o <<".", ".", ".">> \o <<"RDQ">>,
                         similarity |-> SimilarityTenths(sim)] >>
                ELSE <<>>
    IN  here \o SelfMatches(sents, i, j + 1)

\* Math.min(25, m.similarity/4) in 40ths of a percent
MatchShare(m) == Min(1000, m.similarity)

\* the overlap estimate without its Math.min(100, ...)
OverlapOfUncapped(matches) ==
  SumSeq([k \in 1..Len(matches) |-> MatchShare(matches[k])])

\* Math.min(100, matches.reduce(...)) in 40ths of a percent
OverlapOf(matches) ==
  Min(4000, SumSeq([k \in 1..Len(matches) |-> MatchShare(matches[k])]))

checkPlagiarism(t, ties) ==
  LET sents == splitSentences(t)
      tokens == tokenize(t)
      shingles == Range(shingleTokens(tokens, 6))
  IN  IF shingles = {} THEN [percentOverlap |-> 0, matches |-> <<>>]
      ELSE
        LET matches == CorpusMatches(shingles, 1) \o SelfMatches(sents, 1, 2)
            percentOverlap == OverlapOf(matches)
        IN  [percentOverlap |-> ToFixed1Of40ths(percentOverlap, ties[1]),
             uniqueness |-> ToFixed1Of40ths(Max(0, 4000 - percentOverlap), ties[2]),
             matches |-> matches]

----------------------------------------------------------------------------
(* Inputs *)

\* bounds of the input sets
MaxLen == 5
MaxDraws == 3
MaxFill == 5
MaxPrefix == 9
MaxRepeat == 5
MaxTokens == 20

Tones == {"natural", "formal", "casual"}
KeepLengths == {"shorter", "medium", "longer"}

\* every string of at most MaxLen characters over a letter, a terminator and two
\* kinds of whitespace
SplitInputs == UNION {[1..n -> {"a", ".", " ", "\t"}] : n \in 0..MaxLen}

\* the words tried in the first position of a sentence
SlotWords == {
  <<"h", "e", "l", "p">>, <<"h", "e", "l", "p", "2">>, <<"C", "o", "n", "s", "t", "r", "u", "c", "t", "o", "r">>, <<"c", "o", "n", "s", "t", "r", "u", "c", "t", "o", "r">>, <<"C", "a", "n", "'", "t">>,
  <<"c", "a", "n", "'", "t">>, <<"i", "'", "m">>, <<"b", "i", "g", ",">>, <<"A", "l", "s", "o">>, <<"7">> }

FillWords == << <<"i", "t">>, <<"i", "s">>, <<"a", "n">>, <<"o", "l", "d">>, <<"r", "e", "d">>, <<"h", "o", "u", "s", "e">>, <<"t", "o", "d", "a", "y", ".">> >>

\* w followed by the last n words of FillWords, as one text
Sentence(w, n) ==
  join(<<w>> \o SubSeq(FillWords, Len(FillWords) - n + 1, Len(FillWords)), <<" ">>)

RewriteInputs ==
  {Sentence(w, n) : w \in SlotWords, n \in 3..MaxFill}
  \cup {<<"W", "e", " ", "g", "o", ".", " ">> \o Sentence(w, MaxFill) : w \in SlotWords}

\* the first k whitespace-delimited words of s
FirstWords(s, k) ==
  LET ws == SplitWs(s, 1)
  IN  join(SubSeq(ws, 1, Min(k, Len(ws))), <<" ">>)

PlagTails == { <<>>, <<" ", "a", "n", "d", " ", "m", "o", "r", "e">>, <<" ", "w", "i", "t", "h", " ", "a", "u", "t", "o", "m", "a", "t", "i", "o", "n", " ", "a", "n", "d", " ", "s", "m", "a", "r", "t", "e", "r", " ", "c", "h", "o", "i", "c", "e", "s", " ", "f", "o", "r", " ", "a", "l", "l", " ", "o", "f", " ", "u", "s">> }

BaseSentences == <<
  <<"o", "n", "e", " ", "t", "w", "o", " ", "t", "h", "r", "e", "e", " ", "f", "o", "u", "r", " ", "f", "i", "v", "e", " ", "s", "i", "x", " ", "s", "e", "v", "e", "n", " ", "e", "i", "g", "h", "t", ".">>,
  <<"o", "n", "e", " ", "t", "w", "o", " ", "t", "h", "r", "e", "e", " ", "f", "o", "u", "r", " ", "f", "i", "v", "e", " ", "s", "i", "x", " ", "s", "e", "v", "e", "n", " ", "n", "i", "n", "e", ".">>,
  <<"o", "n", "e", " ", "t", "w", "o", " ", "t", "h", "r", "e", "e", " ", "n", "i", "n", "e", " ", "t", "e", "n", " ", "s", "i", "x", " ", "s", "e", "v", "e", "n", " ", "e", "i", "g", "h", "t", "!">>,
  <<"o", "n", "e", " ", "t", "w", "o", " ", "t", "h", "r", "e", "e", " ", "f", "o", "u", "r", " ", "f", "i", "v", "e", " ", "s", "i", "x", ".">> >>

\* s repeated n times, separated by single spaces
RECURSIVE Repeat(_, _)
Repeat(s, n) == IF n = 0 THEN <<>> ELSE IF n = 1 THEN s ELSE s \o <<" ">> \o Repeat(s, n - 1)

PlagInputs ==
  {CORPUS[c] : c \in 1..Len(CORPUS)}
  \cup {FirstWords(CORPUS[c], k) \o tl : c \in 1..Len(CORPUS), k \in 0..MaxPrefix, tl \in PlagTails}
  \cup {Repeat(BaseSentences[a], n) \o <<" ">> \o BaseSentences[b] :
          a \in 1..Len(BaseSentences), b \in 1..Len(BaseSentences), n \in 0..(MaxRepeat - 1)}

DetectWords == << <<"a", "l", "p", "h", "a">>, <<"b", "e", "t", "a">>, <<"g", "a", "m", "m", "a">>, <<"i", "t", "'", "s">>, <<"D", "e", "l", "t", "a", ",">>, <<"(", "e", ")", ";">> >>

\* n words, cycling through the first d of DetectWords, a full stop after every m-th
RECURSIVE DetectText(_, _, _, _)
DetectText(n, d, m, k) ==
  IF k > n THEN <<>>
  ELSE DetectWords[((k - 1) % d) + 1]
       \o (IF k % m = 0 THEN <<".">> ELSE <<>>)
       \o (IF k < n THEN <<" ">> ELSE <<>>)
       \o DetectText(n, d, m, k + 1)

DetectInputs ==
  {DetectText(n, d, m, 1) : n \in 0..MaxTokens, d \in 1..Len(DetectWords), m \in {2, 5, MaxTokens + 1}}

----------------------------------------------------------------------------
(* The engine as a state machine: one call of one function per behaviour *)

NoResult == [pending |-> TRUE]

InitSplit ==
  /\ fn = "splitSentences"
  /\ text \in SplitInputs
  /\ tone = "natural" /\ keepLength = "medium"
  /\ draws = <<>> /\ pc = "call" /\ ret = NoResult

InitRewrite ==
  /\ fn = "humanizeText"
  /\ text \in RewriteInputs
  /\ tone \in Tones /\ keepLength \in KeepLengths
  /\ draws = <<>> /\ pc = "call" /\ ret = NoResult

InitDetect ==
  /\ fn = "aiDetectScore"
  /\ text \in DetectInputs
  /\ tone = "natural" /\ keepLength = "medium"
  /\ draws = <<>> /\ pc = "call" /\ ret = NoResult

InitPlag ==
  /\ fn = "checkPlagiarism"
  /\ text \in PlagInputs
  /\ tone = "natural" /\ keepLength = "medium"
  /\ draws = <<>> /\ pc = "call" /\ ret = NoResult

Init == InitSplit \/ InitRewrite \/ InitDetect \/ InitPlag

CallSplitSentences ==
  /\ fn = "splitSentences" /\ pc = "call"
  /\ ret' = [value |-> splitSentences(text)]
  /\ pc' = "done"
  /\ UNCHANGED <<fn, text, tone, keepLength, draws>>

CallHumanizeText ==
  /\ fn = "humanizeText" /\ pc = "call"
  /\ \E rs \in [1..Min(MaxDraws, DrawsNeeded(text, tone, keepLength)) -> RandVals] :
       /\ draws' = rs
       /\ ret' = humanizeText(text, tone, keepLength, rs)
  /\ pc' = "done"
  /\ UNCHANGED <<fn, text, tone, keepLength>>

CallAiDetectScore ==
  /\ fn = "aiDetectScore" /\ pc = "call"
  /\ ret' = aiDetectScore(text)
  /\ pc' = "done"
  /\ UNCHANGED <<fn, text, tone, keepLength, draws>>

CallCheckPlagiarism ==
  /\ fn = "checkPlagiarism" /\ pc = "call"
  /\ \E ties \in [1..2 -> BOOLEAN] : ret' = checkPlagiarism(text, ties)
  /\ pc' = "done"
  /\ UNCHANGED <<fn, text, tone, keepLength, draws>>

Next == CallSplitSentences \/ CallHumanizeText \/ CallAiDetectScore \/ CallCheckPlagiarism

Spec == Init /\ [][Next]_vars
SpecSplit == InitSplit /\ [][CallSplitSentences]_vars
SpecRewrite == InitRewrite /\ [][CallHumanizeText]_vars
SpecDetect == InitDetect /\ [][CallAiDetectScore]_vars
SpecPlag == InitPlag /\ [][CallCheckPlagiarism]_vars

----------------------------------------------------------------------------
(* Properties *)

Returned(f) == pc = "done" /\ fn = f

\* the number of whitespace-delimited words of a sentence
WordCount(s) == Len(filterBoolean(SplitWs(s, 1)))

\* humanizeText returned a value (no rewriteSentence call threw)
Rewrote == Returned("humanizeText") /\ ~ret.threw

\* C1 as stated: the output of humanizeText for a sentence of fewer than 6 words
\* is the sentence itself, for every tone, every keepLength and every draw.
C1_ShortSentenceUnchangedByHumanize ==
  Rewrote =>
    \A j \in 1..Len(ret.sents) :
      WordCount(ret.sents[j]) < 6 => ret.res[j] = ret.sents[j]

\* C1 amended: rewriteSentence returns a sentence of fewer than 6 words as it is,
\* for every tone and every draw, and the length pass keeps it when keepLength is
\* medium.
C1_ShortSentenceReturnedByRewrite ==
  Returned("humanizeText") =>
    \A j \in 1..Len(ret.calls) :
      WordCount(ret.sents[j]) < 6 =>
        /\ ~ret.calls[j].threw
        /\ ret.calls[j].value = ret.sents[j]
        /\ (~ret.threw /\ keepLength = "medium") => ret.res[j] = ret.sents[j]

\* a five-word sentence with a contraction came back unchanged under the formal tone
C1_Witness ==
  /\ Rewrote /\ tone = "formal" /\ keepLength = "medium"
  /\ \E j \in 1..Len(ret.sents) :
       /\ WordCount(ret.sents[j]) = 5
       /\ ExpandContractions(ret.sents[j], 1) # ret.sents[j]
       /\ ret.res[j] = ret.sents[j]

\* C2: no engine function throws, whatever the input and the draws.
C2_NeverThrows ==
  Returned("humanizeText") => ~ret.threw

\* C3: a text of fewer than 6 tokens gives percentOverlap 0, no matches and no
\* uniqueness field.
C3_ShortTextNoOverlap ==
  (Returned("checkPlagiarism") /\ Len(tokenize(text)) < 6) =>
    /\ ret.percentOverlap = 0
    /\ ret.matches = <<>>
    /\ "uniqueness" \notin DOMAIN ret

\* a text of exactly five tokens was checked
C3_Witness ==
  /\ Returned("checkPlagiarism")
  /\ Len(tokenize(text)) = 5
  /\ DOMAIN ret = {"percentOverlap", "matches"}

\* C4: a CORPUS entry given verbatim yields a "Local Corpus" match of similarity
\* 100.0 (1000 tenths).
C4_CorpusEntryMatchesItself ==
  (Returned("checkPlagiarism") /\ text \in Range(CORPUS)) =>
    \E k \in 1..Len(ret.matches) :
      ret.matches[k].source = "Local Corpus" /\ ret.matches[k].similarity = 1000

\* the entry with the non-ASCII hyphen was checked and matched
C4_Witness ==
  /\ Returned("checkPlagiarism")
  /\ text = CORPUS[1]
  /\ Len(ret.matches) >= 1

\* C5 as stated: the sentences, joined by single spaces, are the input with every
\* whitespace run collapsed to one space, and none is empty after trimming.
C5_JoinIsCollapsedInput ==
  Returned("splitSentences") =>
    /\ join(ret.value, <<" ">>) = CollapseWs(text)
    /\ \A k \in 1..Len(ret.value) : trim(ret.value[k]) # <<>>

\* C5 amended: the sentences, joined by single spaces, are the collapsed input
\* without its leading and trailing whitespace; each sentence is trimmed and
\* none is empty.
C5_JoinIsTrimmedCollapsedInput ==
  Returned("splitSentences") =>
    /\ join(ret.value, <<" ">>) = trim(CollapseWs(text))
    /\ \A k \in 1..Len(ret.value) :
         ret.value[k] # <<>> /\ trim(ret.value[k]) = ret.value[k]

\* a text with leading whitespace was split into two sentences
C5_Witness ==
  /\ Returned("splitSentences")
  /\ Len(text) > 0 /\ IsWs(text[1])
  /\ Len(ret.value) = 2

\* the sum over the returned matches of min(25, similarity/4), capped at 100, in
\* 40ths of a percent
RECURSIVE CappedShares(_)
CappedShares(ms) ==
  IF ms = <<>> THEN 0
  ELSE (IF ms[1].similarity > 1000 THEN 1000 ELSE ms[1].similarity) + CappedShares(Tail(ms))

ExpectedOverlap40 == IF CappedShares(ret.matches) > 4000 THEN 4000 ELSE CappedShares(ret.matches)

\* C6 as stated: on the returned values (in tenths), percentOverlap is
\* min(100, sum of min(25, similarity/4)), uniqueness is max(0, 100 - percentOverlap),
\* percentOverlap is within [0, 100] and the two add up to 100.
C6_OverlapFormulaExact ==
  (Returned("checkPlagiarism") /\ Len(tokenize(text)) >= 6) =>
    /\ 4 * ret.percentOverlap = ExpectedOverlap40
    /\ ret.uniqueness = Max(0, 1000 - ret.percentOverlap)
    /\ ret.percentOverlap >= 0 /\ ret.percentOverlap <= 1000
    /\ ret.percentOverlap + ret.uniqueness = 1000

\* C6 amended: percentOverlap is min(100, sum of min(25, similarity/4)) rounded to
\* one decimal, uniqueness is 100 minus that unrounded sum rounded to one decimal,
\* both lie within [0, 100] and they add up to 100 within 0.1.
C6_OverlapFormulaRounded ==
  (Returned("checkPlagiarism") /\ Len(tokenize(text)) >= 6) =>
    /\ 4 * ret.percentOverlap - ExpectedOverlap40 \in -2..2
    /\ 4 * ret.uniqueness - (4000 - ExpectedOverlap40) \in -2..2
    /\ ret.percentOverlap \in 0..1000
    /\ ret.uniqueness \in 0..1000
    /\ ret.percentOverlap + ret.uniqueness \in 999..1001

\* more than four full matches were found, and the overlap was capped at 100
C6_Witness ==
  /\ Returned("checkPlagiarism")
  /\ Len(ret.matches) > 4
  /\ CappedShares(ret.matches) > 4000
  /\ ret.percentOverlap = 1000 /\ ret.uniqueness = 0

\* C7: the returned score (in thousandths) is within [0, 1] and the label is
\* "Likely AI" exactly when it is >= 0.65, "Likely Human" exactly when it is
\* <= 0.45, and "Mixed" exactly in between.
C7_LabelAgreesWithReturnedScore ==
  Returned("aiDetectScore") =>
    /\ ret.score >= 0 /\ ret.score <= 1000
    /\ (ret.label = "Likely AI") <=> (ret.score >= 650)
    /\ (ret.label = "Likely Human") <=> (ret.score <= 450)
    /\ (ret.label = "Mixed") <=> (ret.score > 450 /\ ret.score < 650)

\* C8: the word-level pass leaves every word that contains a digit unchanged.
C8_DigitWordsUnchanged ==
  Returned("humanizeText") =>
    \A j \in 1..Len(ret.calls) :
      ret.calls[j].touched =>
        \A i \in 1..Len(ret.calls[j].wordsIn) :
          HasDigit(ret.calls[j].wordsIn[i]) =>
            ret.calls[j].wordsOut[i] = ret.calls[j].wordsIn[i]

\* C9: under the formal tone no listed contraction, in any letter case, remains
\* in a rewritten sentence of at least 6 words.
C9_NoContractionLeftWhenFormal ==
  (Rewrote /\ tone = "formal") =>
    \A j \in 1..Len(ret.sents) :
      WordCount(ret.sents[j]) >= 6 =>
        \A i \in 1..Len(ret.rewritten[j]) : ContractionHits(ret.rewritten[j], i) = {}

\* C10: after the shorter pass no run of one to three word characters with
\* whitespace on both sides remains in any sentence.
C10_NoShortWordLeftWhenShorter ==
  (Rewrote /\ keepLength = "shorter") =>
    \A j \in 1..Len(ret.res) :
      \A a \in 2..Len(ret.res[j]) : \A n \in 1..3 :
        ~ /\ a + n <= Len(ret.res[j])
          /\ IsWs(ret.res[j][a - 1])
          /\ \A i \in a..(a + n - 1) : IsWordCh(ret.res[j][i])
          /\ IsWs(ret.res[j][a + n])
====
